---- MODULE Spec2Model ----
(***************************************************************************)
(* WYSZUKIWARKA CC (seeker13.py): keyword search in PDF / DOCX documents.  *)
(*                                                                         *)
(* Three specifications over one set of variables:                         *)
(*   SpecNorm    normalize_text applied once and twice to a bounded text   *)
(*   SpecSearch  the per-document search functions (folder-mode task and   *)
(*               single-file mode) applied to a bounded document           *)
(*   Spec        one search request: KeywordSearcher.search, the           *)
(*               OptimizedFolderSearchWorker thread, its thread pool, the  *)
(*               queued Qt signals and KeywordSearcher.stop_search         *)
(***************************************************************************)
EXTENDS Integers, Sequences, FiniteSets, TLC

(***************************************************************************)
(* Text.  A text is a sequence of characters; the alphabet is a sample of  *)
(* Unicode that holds every class normalize_text tells apart:              *)
(*   "a" U+0061, "n" U+006E    lowercase letters                           *)
(*   "N" U+004E                uppercase, lower() = "n"                    *)
(*   "n_acute" U+0144          NFKD = "n" U+0301                           *)
(*   "N_acute" U+0143          lower() = U+0144, NFKD = "N" U+0301         *)
(*   "dsN" U+2115              DOUBLE-STRUCK CAPITAL N: lower() leaves it, *)
(*                             NFKD = "N" (compatibility decomposition)    *)
(*   "acute" U+0301            COMBINING ACUTE ACCENT, combining class 230 *)
(*   "sp" U+0020               whitespace                                  *)
(***************************************************************************)
Chars == {"a", "n", "N", "n_acute", "N_acute", "dsN", "acute", "sp"}

\* str.lower() on one character
LowerChar(c) ==
    CASE c = "N" -> "n"
      [] c = "N_acute" -> "n_acute"
      [] OTHER -> c

\* unicodedata.normalize('NFKD', c) on one character
NFKDChar(c) ==
    CASE c = "n_acute" -> <<"n", "acute">>
      [] c = "N_acute" -> <<"N", "acute">>
      [] c = "dsN" -> <<"N">>
      [] OTHER -> <<c>>

\* unicodedata.combining(c) is non-zero
Combining(c) == c = "acute"

\* str.isspace() on one character
IsSpace(c) == c = "sp"

RECURSIVE LowerText(_)
LowerText(t) ==
    IF t = <<>> THEN <<>> ELSE <<LowerChar(Head(t))>> \o LowerText(Tail(t))

RECURSIVE NFKDText(_)
NFKDText(t) ==
    IF t = <<>> THEN <<>> ELSE NFKDChar(Head(t)) \o NFKDText(Tail(t))

RECURSIVE StripCombining(_)
StripCombining(t) ==
    IF t = <<>> THEN <<>>
    ELSE (IF Combining(Head(t)) THEN <<>> ELSE <<Head(t)>>)
         \o StripCombining(Tail(t))

\* normalize_text: lower(), then NFKD, then drop the combining characters
normalize_text(text) ==
    IF text = <<>> THEN <<>>
    ELSE StripCombining(NFKDText(LowerText(text)))

\* Python's  sub in s  on strings
Contains(sub, s) ==
    \E i \in 0..(Len(s) - Len(sub)) : SubSeq(s, i + 1, i + Len(sub)) = sub

\* bool(text.strip()): the text holds a non-whitespace character
HasNonSpace(t) == \E i \in 1..Len(t) : ~IsSpace(t[i])

RECURSIVE LStrip(_)
LStrip(t) ==
    IF t # <<>> /\ IsSpace(Head(t)) THEN LStrip(Tail(t)) ELSE t

RECURSIVE RStrip(_)
RStrip(t) ==
    IF t # <<>> /\ IsSpace(t[Len(t)]) THEN RStrip(SubSeq(t, 1, Len(t) - 1)) ELSE t

\* A keyword taken as typed, without trimming.
StripNothing(t) == t

\* str.strip()
Strip(t) == RStrip(LStrip(t))

(***************************************************************************)
(* Documents.  A PDF is a sequence of pages; a DOCX is its paragraphs and  *)
(* the cells of its tables.  What the libraries do on a document is part   *)
(* of the document:                                                        *)
(*   opens      fitz.open / docx.Document returns (FALSE: it raises)       *)
(*   text       page.get_text() of the page                                *)
(*   raises     doc[page_num] / get_text() raises on this page             *)
(*   raster     convert_from_path returns the page images (FALSE: raises)  *)
(*   ocr        pytesseract.image_to_string of the page image              *)
(*   ocrRaises  pytesseract.image_to_string raises on this page image      *)
(***************************************************************************)
Page(text, raises, ocr, ocrRaises) ==
    [text |-> text, raises |-> raises, ocr |-> ocr, ocrRaises |-> ocrRaises]

Pdf(opens, pages, raster) ==
    [fmt |-> "pdf", opens |-> opens, pages |-> pages, raster |-> raster,
     paras |-> <<>>, cells |-> <<>>]

Docx(opens, paras, cells) ==
    [fmt |-> "docx", opens |-> opens, pages |-> <<>>, raster |-> FALSE,
     paras |-> paras, cells |-> cells]

\* A second pass entered whenever OCR is permitted, whatever the first pass read.
OcrFallbackDueWhenPermitted(has_text_pages, search_only_text) == ~search_only_text

\* if not has_text_pages and not search_only_text: the second pass (OCR) is due
OcrFallbackDue(has_text_pages, search_only_text) == ~has_text_pages /\ ~search_only_text

\* An OCR loop that gives the document up at the first page image it fails on.
RECURSIVE OcrLoopAbortOnFailure(_, _, _)
OcrLoopAbortOnFailure(pages, k, norm_keyword) ==
    IF k > Len(pages) THEN FALSE
    ELSE IF pages[k].ocrRaises THEN FALSE
    ELSE IF Contains(norm_keyword, normalize_text(pages[k].ocr)) THEN TRUE
    ELSE OcrLoopAbortOnFailure(pages, k + 1, norm_keyword)

\* search_pdf_with_ocr, the loop over the page images from image k on
RECURSIVE OcrLoop(_, _, _)
OcrLoop(pages, k, norm_keyword) ==
    IF k > Len(pages) THEN FALSE
    ELSE IF ~pages[k].ocrRaises /\ Contains(norm_keyword, normalize_text(pages[k].ocr))
         THEN TRUE
         ELSE OcrLoop(pages, k + 1, norm_keyword)

\* search_pdf_with_ocr(path, norm_keyword); tess is TESSERACT_CMD being set
search_pdf_with_ocr(doc, norm_keyword, tess) ==
    IF ~tess THEN FALSE
    ELSE IF ~doc.raster THEN FALSE
    ELSE OcrLoop(doc.pages, 1, norm_keyword)

\* search_pdf_file, the first pass from page k on:
\* "found" (return True), "error" (an exception), or the has_text_pages it ends with
RECURSIVE PdfFirstPass(_, _, _, _)
PdfFirstPass(pages, k, has_text_pages, norm_keyword) ==
    IF k > Len(pages) THEN [end |-> "done", has_text_pages |-> has_text_pages]
    ELSE IF pages[k].raises THEN [end |-> "error", has_text_pages |-> has_text_pages]
    ELSE IF HasNonSpace(pages[k].text)
         THEN IF Contains(norm_keyword, normalize_text(pages[k].text))
              THEN [end |-> "found", has_text_pages |-> TRUE]
              ELSE PdfFirstPass(pages, k + 1, TRUE, norm_keyword)
         ELSE PdfFirstPass(pages, k + 1, has_text_pages, norm_keyword)

\* A search_pdf_file that falls back to OCR whatever search_only_text says.
search_pdf_file_always_ocr(doc, keyword, search_only_text, tess) ==
    IF ~doc.opens THEN FALSE
    ELSE LET norm_keyword == normalize_text(keyword)
             pass == PdfFirstPass(doc.pages, 1, FALSE, norm_keyword)
         IN CASE pass.end = "found" -> TRUE
              [] pass.end = "error" -> FALSE
              [] OTHER ->
                   IF ~pass.has_text_pages
                   THEN search_pdf_with_ocr(doc, norm_keyword, tess)
                   ELSE FALSE

\* search_pdf_file(path, keyword, search_only_text)
search_pdf_file(doc, keyword, search_only_text, tess) ==
    IF ~doc.opens THEN FALSE
    ELSE LET norm_keyword == normalize_text(keyword)
             pass == PdfFirstPass(doc.pages, 1, FALSE, norm_keyword)
         IN CASE pass.end = "found" -> TRUE
              [] pass.end = "error" -> FALSE
              [] OTHER ->
                   IF OcrFallbackDue(pass.has_text_pages, search_only_text)
                   THEN search_pdf_with_ocr(doc, norm_keyword, tess)
                   ELSE FALSE

\* the loops of search_docx_file over a list of texts (paragraphs, then cells)
RECURSIVE AnyTextContains(_, _, _)
AnyTextContains(texts, k, norm_keyword) ==
    IF k > Len(texts) THEN FALSE
    ELSE IF Contains(norm_keyword, normalize_text(texts[k])) THEN TRUE
    ELSE AnyTextContains(texts, k + 1, norm_keyword)

\* search_docx_file(path, keyword)
search_docx_file(doc, keyword) ==
    IF ~doc.opens THEN FALSE
    ELSE LET norm_keyword == normalize_text(keyword)
         IN IF AnyTextContains(doc.paras, 1, norm_keyword) THEN TRUE
            ELSE AnyTextContains(doc.cells, 1, norm_keyword)

\* filepath.lower().endswith(ext): the file's extension as written, lowercased
LowerExt(ext) ==
    CASE ext = "PDF" -> "pdf"
      [] ext = "DOCX" -> "docx"
      [] OTHER -> ext

\* process_single_file((filepath, keyword, search_only_text)): the found it returns.
\* Every exception ends in its except clause, which returns (filepath, False).
process_single_file(file, keyword, search_only_text, tess) ==
    IF LowerExt(file.ext) = "pdf"
    THEN search_pdf_file(file.doc, keyword, search_only_text, tess)
    ELSE IF LowerExt(file.ext) = "docx"
    THEN search_docx_file(file.doc, keyword)
    ELSE FALSE

\* A first pass that returns at its first matching page, as the folder-mode pass does.
RECURSIVE PdfPagesPassFirstOnly(_, _, _, _, _)
PdfPagesPassFirstOnly(pages, k, has_text_pages, found_pages, norm_keyword) ==
    IF k > Len(pages)
    THEN [end |-> "done", has_text_pages |-> has_text_pages, found_pages |-> found_pages]
    ELSE IF pages[k].raises
    THEN [end |-> "error", has_text_pages |-> has_text_pages, found_pages |-> found_pages]
    ELSE IF HasNonSpace(pages[k].text)
         THEN IF Contains(norm_keyword, normalize_text(pages[k].text))
              THEN [end |-> "done", has_text_pages |-> TRUE,
                    found_pages |-> Append(found_pages, k - 1)]
              ELSE PdfPagesPassFirstOnly(pages, k + 1, TRUE, found_pages, norm_keyword)
         ELSE PdfPagesPassFirstOnly(pages, k + 1, has_text_pages, found_pages, norm_keyword)

\* find_keyword_in_pdf_pages, the first loop from page k on (page_num = k - 1)
RECURSIVE PdfPagesPass(_, _, _, _, _)
PdfPagesPass(pages, k, has_text_pages, found_pages, norm_keyword) ==
    IF k > Len(pages)
    THEN [end |-> "done", has_text_pages |-> has_text_pages, found_pages |-> found_pages]
    ELSE IF pages[k].raises
    THEN [end |-> "error", has_text_pages |-> has_text_pages, found_pages |-> found_pages]
    ELSE IF HasNonSpace(pages[k].text)
         THEN PdfPagesPass(pages, k + 1, TRUE,
                           IF Contains(norm_keyword, normalize_text(pages[k].text))
                           THEN Append(found_pages, k - 1) ELSE found_pages,
                           norm_keyword)
         ELSE PdfPagesPass(pages, k + 1, has_text_pages, found_pages, norm_keyword)

\* find_keyword_in_pdf_pages, the loop over the page images from image k on (i = k - 1)
RECURSIVE OcrPagesLoop(_, _, _, _)
OcrPagesLoop(pages, k, found_pages, norm_keyword) ==
    IF k > Len(pages) THEN found_pages
    ELSE OcrPagesLoop(pages, k + 1,
                      IF ~pages[k].ocrRaises
                         /\ Contains(norm_keyword, normalize_text(pages[k].ocr))
                      THEN Append(found_pages, k - 1) ELSE found_pages,
                      norm_keyword)

\* KeywordSearcher.find_keyword_in_pdf_pages(path, keyword, skip_ocr)
find_keyword_in_pdf_pages(doc, keyword, skip_ocr, tess) ==
    LET norm_keyword == normalize_text(keyword)
    IN IF ~doc.opens THEN <<>>
       ELSE LET pass == PdfPagesPass(doc.pages, 1, FALSE, <<>>, norm_keyword)
            IN IF pass.end = "error" THEN pass.found_pages
               ELSE IF OcrFallbackDue(pass.has_text_pages, skip_ocr)
                    THEN IF ~tess THEN pass.found_pages
                         ELSE IF ~doc.raster THEN pass.found_pages
                         ELSE OcrPagesLoop(doc.pages, 1, pass.found_pages, norm_keyword)
                    ELSE pass.found_pages

\* find_keyword_in_docx_paragraphs, the loop from paragraph k on (i = k - 1)
RECURSIVE ParagraphsLoop(_, _, _, _)
ParagraphsLoop(paras, k, found_paragraphs, norm_keyword) ==
    IF k > Len(paras) THEN found_paragraphs
    ELSE ParagraphsLoop(paras, k + 1,
                        IF Contains(norm_keyword, normalize_text(paras[k]))
                        THEN Append(found_paragraphs, k - 1) ELSE found_paragraphs,
                        norm_keyword)

\* KeywordSearcher.find_keyword_in_docx_paragraphs(path, keyword)
find_keyword_in_docx_paragraphs(doc, keyword) ==
    LET norm_keyword == normalize_text(keyword)
    IN IF ~doc.opens THEN <<>>
       ELSE ParagraphsLoop(doc.paras, 1, <<>>, norm_keyword)

\* search_single_file: the Locators found (results) and the items added to results_list
search_single_file(file, keyword, skip_ocr, tess) ==
    LET results ==
            IF LowerExt(file.ext) = "pdf"
            THEN find_keyword_in_pdf_pages(file.doc, keyword, skip_ocr, tess)
            ELSE IF LowerExt(file.ext) = "docx"
            THEN find_keyword_in_docx_paragraphs(file.doc, keyword)
            ELSE <<>>
        label == IF LowerExt(file.ext) = "pdf" THEN "Strona" ELSE "Paragraph"
    IN [results |-> results,
        items |-> [j \in 1..Len(results) |-> [label |-> label, number |-> results[j] + 1]],
        no_results_box |-> (results = <<>>)]

(***************************************************************************)
(* What a search does besides returning a value:                           *)
(*   opened       fitz.open returned a document handle                     *)
(*   closed       doc.close() was called on it                             *)
(*   ocr_entered  the second pass was entered (search_pdf_with_ocr called, *)
(*                or the OCR block of find_keyword_in_pdf_pages reached)   *)
(*   recognized   the page images (1-based) given to image_to_string       *)
(*   released     the page images img.close() was called on                *)
(* docx.Document reads the package and keeps no file handle, and python-   *)
(* docx has no close(): a DOCX search opens no handle.                     *)
(***************************************************************************)
Effects(opened, closed, ocr_entered, recognized, released) ==
    [opened |-> opened, closed |-> closed, ocr_entered |-> ocr_entered,
     recognized |-> recognized, released |-> released]

NoEffects == Effects(FALSE, FALSE, FALSE, <<>>, <<>>)

\* search_pdf_with_ocr, for img in images from image k on: the images the loop body
\* runs on; it returns at the first image whose text contains the keyword
RECURSIVE OcrLoopImages(_, _, _)
OcrLoopImages(pages, k, norm_keyword) ==
    IF k > Len(pages) THEN <<>>
    ELSE IF ~pages[k].ocrRaises /\ Contains(norm_keyword, normalize_text(pages[k].ocr))
         THEN <<k>>
         ELSE <<k>> \o OcrLoopImages(pages, k + 1, norm_keyword)

\* find_keyword_in_pdf_pages, for i, img in enumerate(images): the loop body runs on
\* every image
OcrPagesLoopImages(pages) == [k \in 1..Len(pages) |-> k]

\* search_pdf_file: the handle, the second pass and the images.  doc.close() is
\* called before return True and after the first loop; an exception leaves the
\* function through its except clause.  Each image the OCR loop runs on is closed
\* in the finally clause of the loop body.
search_pdf_file_effects(doc, keyword, search_only_text, tess) ==
    IF ~doc.opens THEN NoEffects
    ELSE LET norm_keyword == normalize_text(keyword)
             pass == PdfFirstPass(doc.pages, 1, FALSE, norm_keyword)
             entered == pass.end = "done"
                        /\ OcrFallbackDue(pass.has_text_pages, search_only_text)
             images == IF entered /\ tess /\ doc.raster
                       THEN OcrLoopImages(doc.pages, 1, norm_keyword) ELSE <<>>
         IN Effects(TRUE, pass.end # "error", entered, images, images)

\* process_single_file: what the task does besides returning found
process_single_file_effects(file, keyword, search_only_text, tess) ==
    IF LowerExt(file.ext) = "pdf"
    THEN search_pdf_file_effects(file.doc, keyword, search_only_text, tess)
    ELSE NoEffects

\* find_keyword_in_pdf_pages: the handle, the second pass and the images.
\* doc.close() is called after the first loop only.
find_keyword_in_pdf_pages_effects(doc, keyword, skip_ocr, tess) ==
    IF ~doc.opens THEN NoEffects
    ELSE LET norm_keyword == normalize_text(keyword)
             pass == PdfPagesPass(doc.pages, 1, FALSE, <<>>, norm_keyword)
             entered == pass.end = "done" /\ OcrFallbackDue(pass.has_text_pages, skip_ocr)
             images == IF entered /\ tess /\ doc.raster
                       THEN OcrPagesLoopImages(doc.pages) ELSE <<>>
         IN Effects(TRUE, pass.end # "error", entered, images, images)

\* search_single_file: what the search does besides listing the Locators
search_single_file_effects(file, keyword, skip_ocr, tess) ==
    IF LowerExt(file.ext) = "pdf"
    THEN find_keyword_in_pdf_pages_effects(file.doc, keyword, skip_ocr, tess)
    ELSE NoEffects

(***************************************************************************)
(* Bounds and the inputs drawn within them.                                *)
(***************************************************************************)
\* Bound: the longest text SpecNorm draws.
MaxLen == 3

\* Bound: the most pages of a PDF SpecSearch draws.
MaxPages == 3

\* Bound: the most paragraphs of a DOCX SpecSearch draws.
MaxParas == 2

\* Bound: the most table cells of a DOCX SpecSearch draws.
MaxCells == 1

RECURSIVE TextsUpTo(_)
TextsUpTo(n) ==
    IF n = 0 THEN {<<>>}
    ELSE LET shorter == TextsUpTo(n - 1)
         IN shorter \cup {Append(t, c) : t \in {s \in shorter : Len(s) = n - 1}, c \in Chars}

RECURSIVE SeqsUpTo(_, _)
SeqsUpTo(S, n) ==
    IF n = 0 THEN {<<>>}
    ELSE LET shorter == SeqsUpTo(S, n - 1)
         IN shorter \cup {Append(q, x) : q \in {r \in shorter : Len(r) = n - 1}, x \in S}

\* The keywords a request carries (raw_keyword: already stripped, not empty):
\* "N-acute" (normalizes to "n"), "an", and a lone combining accent (normalizes to "").
Keywords == {<<"N_acute">>, <<"a", "n">>, <<"acute">>}

\* The pages drawn: native text "aN-acute" and "aa"; scanned pages the OCR reads as
\* "N " and "a"; a scanned page the OCR fails on; a page whose native text is one
\* space (OCR reads "n-acute"); a page that cannot be read.
PageKinds ==
    { Page(<<"a", "N_acute">>, FALSE, <<>>, FALSE),
      Page(<<"a", "a">>, FALSE, <<>>, FALSE),
      Page(<<>>, FALSE, <<"N", "sp">>, FALSE),
      Page(<<>>, FALSE, <<"a">>, FALSE),
      Page(<<>>, FALSE, <<"n">>, TRUE),
      Page(<<"sp">>, FALSE, <<"n_acute">>, FALSE),
      Page(<<>>, TRUE, <<>>, FALSE) }

\* The paragraph and cell texts drawn.
UnitTexts == {<<"a", "N_acute">>, <<"a", "a">>, <<>>}

Pdfs ==
    {Pdf(TRUE, pages, raster) : pages \in SeqsUpTo(PageKinds, MaxPages), raster \in BOOLEAN}
    \cup {Pdf(FALSE, <<>>, FALSE)}

Docxs ==
    {Docx(TRUE, paras, cells) :
        paras \in SeqsUpTo(UnitTexts, MaxParas), cells \in SeqsUpTo(UnitTexts, MaxCells)}
    \cup {Docx(FALSE, <<>>, <<>>)}

File(name, ext, doc) == [name |-> name, ext |-> ext, doc |-> doc]

\* The files SpecSearch draws.
SearchFiles ==
    {File("f", "pdf", d) : d \in Pdfs} \cup {File("f", "docx", d) : d \in Docxs}
    \cup {File("f", "PDF", Pdf(TRUE, <<Page(<<"a", "N_acute">>, FALSE, <<>>, FALSE)>>, TRUE))}

\* Bound: the most files in the folder a request searches.
MaxFiles == 3

\* Bound: MAX_WORKERS, min(32, cpu_count + 4) in the source, scaled down so that the
\* pool is smaller than the folder.
MAX_WORKERS == 1

\* The files a folder may hold, in os.walk order:
\*   1 a.pdf   native text "aa"
\*   2 b.pdf   a scanned page, no native text; the OCR reads "N "
\*   3 c.docx  paragraphs "aa" and "aN-acute"
\*   4 d.PDF   corrupt: fitz.open raises
\*   5 e.txt   not a candidate
\*   6 f.pdf   native text "aa", then an unreadable page, then native text "aN-acute"
Catalogue ==
    << File("a.pdf", "pdf", Pdf(TRUE, <<Page(<<"a", "a">>, FALSE, <<>>, FALSE)>>, TRUE)),
       File("b.pdf", "pdf", Pdf(TRUE, <<Page(<<>>, FALSE, <<"N", "sp">>, FALSE)>>, TRUE)),
       File("c.docx", "docx", Docx(TRUE, <<<<"a", "a">>, <<"a", "N_acute">>>>, <<>>)),
       File("d.PDF", "PDF", Pdf(FALSE, <<>>, FALSE)),
       File("e.txt", "txt", Docx(FALSE, <<>>, <<>>)),
       File("f.pdf", "pdf", Pdf(TRUE, <<Page(<<"a", "a">>, FALSE, <<>>, FALSE),
                                        Page(<<>>, TRUE, <<>>, FALSE),
                                        Page(<<"a", "N_acute">>, FALSE, <<>>, FALSE)>>, TRUE)) >>

FileIds == 1..Len(Catalogue)

\* The folders drawn: every set of at most MaxFiles catalogue files.
Folders == {S \in SUBSET FileIds : Cardinality(S) <= MaxFiles}

\* What the user may have typed into keyword_input.
KeywordInputs == {<<"sp">>, <<"N_acute", "sp">>}

VARIABLES
    TESSERACT_CMD,  \* the module global: TRUE when find_tesseract() found the engine
    nIn,        \* SpecNorm: the text given to normalize_text
    nOnce,      \* SpecNorm: normalize_text(nIn)
    nTwice,     \* SpecNorm: normalize_text(nOnce)
    nStage,     \* SpecNorm: how many times normalize_text has been applied
    sFile,      \* SpecSearch: the document searched
    sKeyword,   \* SpecSearch: raw_keyword
    sSkipOcr,   \* SpecSearch: search_only_text / skip_ocr (the OCR checkbox)
    sFolder,    \* SpecSearch: the found process_single_file returned and what it did
    sSingle,    \* SpecSearch: what search_single_file produced and what it did
    folder,     \* Spec: the files (catalogue ids) under the selected folder
    gui,        \* Spec: the KeywordSearcher widget: inputs, buttons, progress bar, list
    w,          \* Spec: the OptimizedFolderSearchWorker: its fields and where run() is
    task,       \* Spec: per file, its future: "none", "pending", "running" or "done"
    yielded,    \* Spec: the futures as_completed has yielded
    emitted,    \* Spec: the signals the worker emitted, in order
    delivered,  \* Spec: how many of them the GUI thread's event loop has delivered
    hist        \* Spec: history of the request, read by the properties only

normVars == <<nIn, nOnce, nTwice, nStage>>

searchVars == <<sFile, sKeyword, sSkipOcr, sFolder, sSingle>>

folderVars == <<folder, gui, w, task, yielded, emitted, delivered, hist>>

vars == <<TESSERACT_CMD, normVars, searchVars, folderVars>>

NoFile == File("none", "txt", Docx(FALSE, <<>>, <<>>))

NoFolderResult == [done |-> FALSE, found |-> FALSE, effects |-> NoEffects]

NoSingleResult ==
    [done |-> FALSE, out |-> [results |-> <<>>, items |-> <<>>, no_results_box |-> FALSE],
     effects |-> NoEffects]

\* KeywordSearcher.__init__: the widget before any click on "Wyszukaj", with what the
\* user entered.  folder_radio: "Szukaj w folderze" is checked; file: the catalogue
\* file self.path names in single-file mode (0: none)
NewGui(path, keyword_input, ocr_checkbox, high_performance) ==
    [ folder_radio |-> TRUE,
      file |-> 0,
      path |-> path,
      keyword_input |-> keyword_input,
      ocr_checkbox |-> ocr_checkbox,
      high_performance |-> high_performance,
      search_button |-> TRUE,
      stop_button |-> FALSE,
      progress_visible |-> FALSE,
      progress_value |-> 0,
      status_label |-> [text |-> "", file |-> 0],
      results_list |-> <<>>,
      box |-> "none",
      report |-> [total |-> 0, found |-> 0, skipped |-> 0],
      worker |-> FALSE ]

\* OptimizedFolderSearchWorker.__init__; pc is where its run() is ("none": not started)
NewWorker(pc, keyword, search_only_text, max_workers) ==
    [ pc |-> pc,
      keyword |-> keyword,
      search_only_text |-> search_only_text,
      max_workers |-> max_workers,
      all_files |-> <<>>,
      results |-> <<>>,
      total |-> 0,
      skipped |-> 0,
      processed |-> 0,
      next |-> 1,
      cur |-> 0 ]

NoHist ==
    [ stopped |-> FALSE,          \* stop_search terminated the running worker
      stopProcessed |-> 0,        \* processed when it did
      deliveredAfterStop |-> 0,   \* signals delivered to the front end after it
      startedAfterStop |-> {},    \* tasks that began executing after it
      completedAfterStop |-> {},  \* tasks that ran to completion after it
      submits |-> [i \in FileIds |-> 0],   \* executor.submit calls per file
      consumed |-> [i \in FileIds |-> 0],  \* results taken by the loop per file
      class |-> [i \in FileIds |-> "none"],\* how the loop counted the file
      summaries |-> 0 ]           \* display_summary calls

FolderIdle ==
    /\ folder = {}
    /\ gui = NewGui("", <<>>, FALSE, FALSE)
    /\ w = NewWorker("none", <<>>, FALSE, 0)
    /\ task = [i \in FileIds |-> "none"]
    /\ yielded = {}
    /\ emitted = <<>>
    /\ delivered = 0
    /\ hist = NoHist

NormIdle == nIn = <<>> /\ nOnce = <<>> /\ nTwice = <<>> /\ nStage = 0

SearchIdle ==
    /\ sFile = NoFile
    /\ sKeyword = <<>>
    /\ sSkipOcr = FALSE
    /\ sFolder = NoFolderResult
    /\ sSingle = NoSingleResult

NormInit ==
    /\ TESSERACT_CMD = FALSE
    /\ SearchIdle
    /\ FolderIdle
    /\ nIn \in TextsUpTo(MaxLen)
    /\ nOnce = <<>>
    /\ nTwice = <<>>
    /\ nStage = 0

NormalizeOnce ==
    /\ nStage = 0
    /\ nOnce' = normalize_text(nIn)
    /\ nStage' = 1
    /\ UNCHANGED <<TESSERACT_CMD, searchVars, folderVars, nIn, nTwice>>

NormalizeTwice ==
    /\ nStage = 1
    /\ nTwice' = normalize_text(nOnce)
    /\ nStage' = 2
    /\ UNCHANGED <<TESSERACT_CMD, searchVars, folderVars, nIn, nOnce>>

NormNext == NormalizeOnce \/ NormalizeTwice

SpecNorm == NormInit /\ [][NormNext]_vars

(***************************************************************************)
(* SpecSearch: one document, searched as a folder-mode task and in          *)
(* single-file mode.                                                       *)
(***************************************************************************)
SearchInit ==
    /\ TESSERACT_CMD \in BOOLEAN
    /\ NormIdle
    /\ FolderIdle
    /\ sFile \in SearchFiles
    /\ sKeyword \in Keywords
    /\ sSkipOcr \in BOOLEAN
    /\ sFolder = NoFolderResult
    /\ sSingle = NoSingleResult

\* a pool thread runs process_single_file on the document
FolderTask ==
    /\ ~sFolder.done
    /\ sFolder' = [done |-> TRUE,
                   found |-> process_single_file(sFile, sKeyword, sSkipOcr, TESSERACT_CMD),
                   effects |-> process_single_file_effects(sFile, sKeyword, sSkipOcr,
                                                           TESSERACT_CMD)]
    /\ UNCHANGED <<TESSERACT_CMD, normVars, folderVars, sFile, sKeyword, sSkipOcr, sSingle>>

\* KeywordSearcher.search_single_file on the document
SingleFile ==
    /\ ~sSingle.done
    /\ sSingle' = [done |-> TRUE,
                   out |-> search_single_file(sFile, sKeyword, sSkipOcr, TESSERACT_CMD),
                   effects |-> search_single_file_effects(sFile, sKeyword, sSkipOcr,
                                                          TESSERACT_CMD)]
    /\ UNCHANGED <<TESSERACT_CMD, normVars, folderVars, sFile, sKeyword, sSkipOcr, sFolder>>

SearchNext == FolderTask \/ SingleFile

SpecSearch == SearchInit /\ [][SearchNext]_vars

(***************************************************************************)
(* Spec: one search request, from the click on "Wyszukaj" to the summary   *)
(* or the stop (folder mode), or to the list of Locators (single-file      *)
(* mode, which runs inside the click handler).                             *)
(*                                                                         *)
(* Threads: the GUI thread (search, stop_search, the slots run by its      *)
(* event loop), the worker's QThread (run), and the threads of the         *)
(* ThreadPoolExecutor that run process_single_file.  The worker object     *)
(* lives in the GUI thread and emits from its own thread, so each signal   *)
(* is queued and its slot runs later in the GUI thread, in emission order. *)
(* QThread.terminate() ends the QThread wherever run() is; the pool's      *)
(* threads are not part of it and go on taking tasks off the work queue.   *)
(***************************************************************************)
Signal(sig, value, path, results, total, skipped) ==
    [sig |-> sig, value |-> value, path |-> path,
     results |-> results, total |-> total, skipped |-> skipped]

ProgressSignal(value) == Signal("progress", value, 0, <<>>, 0, 0)

\* A match notification that does not carry the path of the match.
FileProcessedSignalNoPath(path) == Signal("file_processed", 0, 0, <<>>, 0, 0)

FileProcessedSignal(path) == Signal("file_processed", 0, path, <<>>, 0, 0)

FinishedSignal(results, total, skipped) == Signal("finished", 0, 0, results, total, skipped)

\* A walk without the extension filter.
IsCandidateAnyFile(i) == i \in FileIds

\* name.lower().endswith((".pdf", ".docx"))
IsCandidate(i) == LowerExt(Catalogue[i].ext) \in {"pdf", "docx"}

RECURSIVE SortedIds(_)
SortedIds(S) ==
    IF S = {} THEN <<>>
    ELSE LET m == CHOOSE x \in S : \A y \in S : x <= y
         IN <<m>> \o SortedIds(S \ {m})

\* the os.walk loop of run(): all_files
WalkFiles(dir) == SortedIds({i \in dir : IsCandidate(i)})

\* The share of the files still to do instead of the share done.
ProgressPercentRemaining(processed, total) == ((total - processed) * 100) \div total

\* int((self.processed / self.total) * 100).  The float product truncates to the
\* integer quotient for every total below 50 (it first differs at 29/50, which gives 57).
ProgressPercent(processed, total) == (processed * 100) \div total

\* A future that holds the exception of a document that cannot be opened.
FutureResultRaising(i, keyword, search_only_text) ==
    [ raised |-> ~Catalogue[i].doc.opens,
      file_path |-> i,
      found |-> process_single_file(Catalogue[i], keyword, search_only_text, TESSERACT_CMD) ]

\* future.result(): process_single_file catches every exception and returns
\* (filepath, False), so the future never holds an exception
FutureResult(i, keyword, search_only_text) ==
    [ raised |-> FALSE,
      file_path |-> i,
      found |-> process_single_file(Catalogue[i], keyword, search_only_text, TESSERACT_CMD) ]

\* QThread.isRunning()
isRunning == w.pc \in {"walk", "submit", "wait", "record", "count", "returned"}

Range(q) == {q[j] : j \in 1..Len(q)}

Running == {i \in FileIds : task[i] = "running"}

\* An iteration that does not drop a future once it has yielded it.
YieldableAgain(i) == task[i] = "done"

\* as_completed yields a finished future it has not yielded yet
Yieldable(i) == task[i] = "done" /\ i \notin yielded

FolderInit ==
    /\ NormIdle
    /\ SearchIdle
    /\ \E path \in {"", "dir"}, keyword_input \in KeywordInputs :
          IF path = "" \/ Strip(keyword_input) = <<>>
          THEN /\ TESSERACT_CMD = TRUE
               /\ folder = {}
               /\ gui = NewGui(path, keyword_input, FALSE, FALSE)
          ELSE /\ TESSERACT_CMD \in BOOLEAN
               /\ \/ /\ folder \in Folders
                     /\ \E ocr_checkbox \in BOOLEAN, high_performance \in BOOLEAN :
                           gui = NewGui(path, keyword_input, ocr_checkbox,
                                        high_performance)
                  \/ /\ folder = {}
                     /\ \E ocr_checkbox \in BOOLEAN, file \in FileIds :
                           gui = [NewGui("file", keyword_input, ocr_checkbox, FALSE)
                                     EXCEPT !.folder_radio = FALSE, !.file = file]
    /\ w = NewWorker("none", <<>>, FALSE, 0)
    /\ task = [i \in FileIds |-> "none"]
    /\ yielded = {}
    /\ emitted = <<>>
    /\ delivered = 0
    /\ hist = NoHist

\* KeywordSearcher.search.  In folder mode the model follows the first request.  In
\* single-file mode search_single_file runs inside the handler: the buttons are
\* switched at its start and switched back in its finally clause.
search ==
    /\ gui.search_button
    /\ ~gui.worker
    /\ LET raw_keyword == Strip(gui.keyword_input)
           cleared == [gui EXCEPT !.results_list = <<>>,
                                  !.status_label = [text |-> "", file |-> 0]]
       IN IF gui.path = "" \/ raw_keyword = <<>>
          THEN /\ gui' = [cleared EXCEPT !.box = "warning"]
               /\ UNCHANGED w
          ELSE IF ~gui.folder_radio
          THEN /\ LET out == search_single_file(Catalogue[gui.file], raw_keyword,
                                                gui.ocr_checkbox, TESSERACT_CMD)
                  IN gui' = [cleared EXCEPT
                                !.results_list = out.items,
                                !.box = IF out.no_results_box THEN "no_results_file" ELSE @,
                                !.search_button = TRUE,
                                !.stop_button = FALSE]
               /\ UNCHANGED w
          ELSE /\ gui' = [cleared EXCEPT !.search_button = FALSE,
                                         !.stop_button = TRUE,
                                         !.progress_visible = TRUE,
                                         !.progress_value = 0,
                                         !.worker = TRUE]
               /\ w' = NewWorker("walk", raw_keyword, gui.ocr_checkbox,
                                 IF gui.high_performance THEN MAX_WORKERS * 2
                                                         ELSE MAX_WORKERS)
    /\ UNCHANGED <<TESSERACT_CMD, normVars, searchVars, folder, task, yielded,
                   emitted, delivered, hist>>

\* run(): collect the files; an empty folder is finished at once
RunWalk ==
    /\ w.pc = "walk"
    /\ LET all_files == WalkFiles(folder)
       IN IF Len(all_files) = 0
          THEN /\ w' = [w EXCEPT !.pc = "returned", !.all_files = all_files, !.total = 0]
               /\ emitted' = Append(emitted, FinishedSignal(<<>>, 0, 0))
          ELSE /\ w' = [w EXCEPT !.pc = "submit", !.all_files = all_files,
                                 !.total = Len(all_files)]
               /\ UNCHANGED emitted
    /\ UNCHANGED <<TESSERACT_CMD, normVars, searchVars, folder, gui, task, yielded,
                   delivered, hist>>

\* run(): executor.submit(process_single_file, args) for the next file
RunSubmit ==
    /\ w.pc = "submit"
    /\ LET i == w.all_files[w.next]
       IN /\ task' = [task EXCEPT ![i] = "pending"]
          /\ hist' = [hist EXCEPT !.submits[i] = @ + 1]
    /\ w' = [w EXCEPT !.next = @ + 1,
                      !.pc = IF w.next = w.total THEN "wait" ELSE "submit"]
    /\ UNCHANGED <<TESSERACT_CMD, normVars, searchVars, folder, gui, yielded,
                   emitted, delivered>>

\* A pool that starts a thread for every queued task, whatever its size.
TaskStartUnbounded(i) ==
    /\ task[i] = "pending"
    /\ \A j \in FileIds : j < i => task[j] # "pending"
    /\ task' = [task EXCEPT ![i] = "running"]
    /\ hist' = [hist EXCEPT !.startedAfterStop = IF hist.stopped THEN @ \cup {i} ELSE @]
    /\ UNCHANGED <<TESSERACT_CMD, normVars, searchVars, folder, gui, w, yielded,
                   emitted, delivered>>

\* a pool thread takes the oldest queued task; at most max_workers threads exist
TaskStart(i) ==
    /\ task[i] = "pending"
    /\ \A j \in FileIds : j < i => task[j] # "pending"
    /\ Cardinality(Running) < w.max_workers
    /\ task' = [task EXCEPT ![i] = "running"]
    /\ hist' = [hist EXCEPT !.startedAfterStop = IF hist.stopped THEN @ \cup {i} ELSE @]
    /\ UNCHANGED <<TESSERACT_CMD, normVars, searchVars, folder, gui, w, yielded,
                   emitted, delivered>>

\* process_single_file returns in its pool thread: the future is done
TaskFinish(i) ==
    /\ task[i] = "running"
    /\ task' = [task EXCEPT ![i] = "done"]
    /\ hist' = [hist EXCEPT !.completedAfterStop = IF hist.stopped THEN @ \cup {i} ELSE @]
    /\ UNCHANGED <<TESSERACT_CMD, normVars, searchVars, folder, gui, w, yielded,
                   emitted, delivered>>

\* run(): for future in as_completed(future_to_file)
RunYield(i) ==
    /\ w.pc = "wait"
    /\ Yieldable(i)
    /\ yielded' = yielded \cup {i}
    /\ w' = [w EXCEPT !.pc = "record", !.cur = i]
    /\ UNCHANGED <<TESSERACT_CMD, normVars, searchVars, folder, gui, task,
                   emitted, delivered, hist>>

\* run(): future.result(); a match is appended and signalled; an exception is
\* counted as skipped
RunRecord ==
    /\ w.pc = "record"
    /\ LET r == FutureResult(w.cur, w.keyword, w.search_only_text)
       IN IF r.raised
          THEN /\ w' = [w EXCEPT !.skipped = @ + 1, !.processed = @ + 1, !.pc = "wait"]
               /\ hist' = [hist EXCEPT !.consumed[w.cur] = @ + 1,
                                       !.class[w.cur] = "skipped"]
               /\ UNCHANGED emitted
          ELSE IF r.found
          THEN /\ w' = [w EXCEPT !.results = Append(@, r.file_path), !.pc = "count"]
               /\ emitted' = Append(emitted, FileProcessedSignal(r.file_path))
               /\ hist' = [hist EXCEPT !.consumed[w.cur] = @ + 1,
                                       !.class[w.cur] = "matched"]
          ELSE /\ w' = [w EXCEPT !.pc = "count"]
               /\ hist' = [hist EXCEPT !.consumed[w.cur] = @ + 1,
                                       !.class[w.cur] = "unmatched"]
               /\ UNCHANGED emitted
    /\ UNCHANGED <<TESSERACT_CMD, normVars, searchVars, folder, gui, task, yielded,
                   delivered>>

\* run(): self.processed += 1 and the progress signal
RunCount ==
    /\ w.pc = "count"
    /\ w' = [w EXCEPT !.processed = @ + 1, !.pc = "wait"]
    /\ emitted' = Append(emitted, ProgressSignal(ProgressPercent(w.processed + 1, w.total)))
    /\ UNCHANGED <<TESSERACT_CMD, normVars, searchVars, folder, gui, task, yielded,
                   delivered, hist>>

\* run(): as_completed is exhausted, the with block ends, the summary is emitted
RunFinish ==
    /\ w.pc = "wait"
    /\ \A i \in Range(w.all_files) : i \in yielded
    /\ w' = [w EXCEPT !.pc = "returned"]
    /\ emitted' = Append(emitted, FinishedSignal(w.results, w.total, w.skipped))
    /\ UNCHANGED <<TESSERACT_CMD, normVars, searchVars, folder, gui, task, yielded,
                   delivered, hist>>

\* run() has returned: the QThread ends
ThreadExit ==
    /\ w.pc = "returned"
    /\ w' = [w EXCEPT !.pc = "finished"]
    /\ UNCHANGED <<TESSERACT_CMD, normVars, searchVars, folder, gui, task, yielded,
                   emitted, delivered, hist>>

\* KeywordSearcher.display_summary(results, total, skipped)
display_summary(g, results, total, skipped) ==
    [g EXCEPT !.progress_visible = FALSE,
              !.search_button = TRUE,
              !.stop_button = FALSE,
              !.results_list = @ \o results,
              !.box = IF Len(results) = 0 THEN "no_results" ELSE "report",
              !.report = [total |-> total, found |-> Len(results), skipped |-> skipped],
              !.status_label = [text |-> "done", file |-> 0]]

\* the GUI thread's event loop runs the slot of the oldest queued signal:
\* progress_bar.setValue, on_file_found or display_summary
Deliver ==
    /\ delivered < Len(emitted)
    /\ LET e == emitted[delivered + 1]
       IN /\ gui' = CASE e.sig = "progress" -> [gui EXCEPT !.progress_value = e.value]
                      [] e.sig = "file_processed" ->
                            [gui EXCEPT !.status_label = [text |-> "found", file |-> e.path]]
                      [] OTHER -> display_summary(gui, e.results, e.total, e.skipped)
          /\ hist' = [hist EXCEPT
                        !.deliveredAfterStop = IF hist.stopped THEN @ + 1 ELSE @,
                        !.summaries = IF e.sig = "finished" THEN @ + 1 ELSE @]
    /\ delivered' = delivered + 1
    /\ UNCHANGED <<TESSERACT_CMD, normVars, searchVars, folder, w, task, yielded, emitted>>

\* KeywordSearcher.stop_search: a click on the enabled "Zatrzymaj"
stop_search ==
    /\ gui.stop_button
    /\ IF gui.worker /\ isRunning
       THEN /\ w' = [w EXCEPT !.pc = "terminated"]
            /\ hist' = [hist EXCEPT !.stopped = TRUE, !.stopProcessed = w.processed]
       ELSE UNCHANGED <<w, hist>>
    /\ gui' = [gui EXCEPT !.progress_visible = FALSE,
                          !.search_button = TRUE,
                          !.stop_button = FALSE,
                          !.status_label = [text |-> "stopped", file |-> 0]]
    /\ UNCHANGED <<TESSERACT_CMD, normVars, searchVars, folder, task, yielded,
                   emitted, delivered>>

Next ==
    \/ search
    \/ RunWalk
    \/ RunSubmit
    \/ \E i \in FileIds : TaskStart(i)
    \/ \E i \in FileIds : TaskFinish(i)
    \/ \E i \in FileIds : RunYield(i)
    \/ RunRecord
    \/ RunCount
    \/ RunFinish
    \/ ThreadExit
    \/ Deliver
    \/ stop_search

Spec == FolderInit /\ [][Next]_vars

(***************************************************************************)
(* What a document holds, stated apart from the loops that scan it.  The   *)
(* units of a document are what its extraction yields: the pages read      *)
(* before a page fails, the paragraphs and the table cells.                *)
(***************************************************************************)
\* the pages (1-based) the extraction reads: those before the first unreadable page
ReadPages(doc) ==
    IF ~doc.opens THEN {}
    ELSE {k \in 1..Len(doc.pages) : \A j \in 1..k : ~doc.pages[j].raises}

FullyRead(doc) == doc.opens /\ ReadPages(doc) = 1..Len(doc.pages)

\* the pages that yield non-whitespace native text
NativePages(doc) == {k \in ReadPages(doc) : HasNonSpace(doc.pages[k].text)}

\* the pages the recognition engine returns a text for
RecognizedPages(doc) ==
    IF TESSERACT_CMD /\ doc.opens /\ doc.raster
    THEN {k \in 1..Len(doc.pages) : ~doc.pages[k].ocrRaises}
    ELSE {}

\* hasNativeTextLayer; a DOCX that opens always has one
HasNativeTextLayer(doc) ==
    IF doc.fmt = "pdf" THEN NativePages(doc) # {} ELSE doc.opens

Matches(text, keyword) == Contains(normalize_text(keyword), normalize_text(text))

\* some native-text unit of the document contains the normalized keyword
NativeContentContains(doc, keyword) ==
    IF doc.fmt = "pdf"
    THEN \E k \in NativePages(doc) : Matches(doc.pages[k].text, keyword)
    ELSE /\ doc.opens
         /\ \/ \E k \in 1..Len(doc.paras) : Matches(doc.paras[k], keyword)
            \/ \E k \in 1..Len(doc.cells) : Matches(doc.cells[k], keyword)

\* the optical fallback applies and some recognized page contains the normalized keyword
RecognizedContentContains(doc, keyword, skip_ocr) ==
    /\ doc.fmt = "pdf"
    /\ FullyRead(doc)
    /\ ~HasNativeTextLayer(doc)
    /\ ~skip_ocr
    /\ \E k \in RecognizedPages(doc) : Matches(doc.pages[k].ocr, keyword)

\* the zero-based pages of a PDF whose text (native, or recognized when the document
\* has no native text layer and the fallback applies) contains the normalized keyword
MatchingPages(doc, keyword, skip_ocr) ==
    IF HasNativeTextLayer(doc)
    THEN {k - 1 : k \in {j \in NativePages(doc) : Matches(doc.pages[j].text, keyword)}}
    ELSE IF FullyRead(doc) /\ ~skip_ocr
    THEN {k - 1 : k \in {j \in RecognizedPages(doc) : Matches(doc.pages[j].ocr, keyword)}}
    ELSE {}

IsPdfFile(file) == LowerExt(file.ext) = "pdf" /\ file.doc.fmt = "pdf"

(***************************************************************************)
(* Properties of the folder search (Spec).                                 *)
(***************************************************************************)
\* the catalogue files whose names end in .pdf or .docx, in any case
SupportedNames == {"a.pdf", "b.pdf", "c.docx", "d.PDF", "f.pdf"}

CandidatesOf(dir) == {i \in dir : Catalogue[i].name \in SupportedNames}

\* a candidate whose extraction raises: it does not open, or one of its pages fails
Unreadable(i) ==
    IF Catalogue[i].doc.fmt = "pdf" THEN ~FullyRead(Catalogue[i].doc)
    ELSE ~Catalogue[i].doc.opens

FinishedEmitted == \E j \in 1..Len(emitted) : emitted[j].sig = "finished"

Classed(c) == {i \in FileIds : hist.class[i] = c}

ProgressValues ==
    LET IsProgress(e) == e.sig = "progress"
        ps == SelectSeq(emitted, IsProgress)
    IN [j \in 1..Len(ps) |-> ps[j].value]

\* the document is one the search should report for the request of the worker
ExpectedMatch(i) ==
    \/ NativeContentContains(Catalogue[i].doc, w.keyword)
    \/ RecognizedContentContains(Catalogue[i].doc, w.keyword, w.search_only_text)

\* C1: in the final summary totalCandidates is the number of .pdf/.docx files of the
\* folder and equals matched + unmatched + skipped; every candidate is counted in
\* exactly one class and processed == total.
C1_CountsAddUp ==
    \A j \in 1..Len(emitted) :
        emitted[j].sig = "finished" =>
            LET e == emitted[j]
            IN /\ e.total = Cardinality(CandidatesOf(folder))
               /\ e.total = Len(e.results) + Cardinality(Classed("unmatched")) + e.skipped
               /\ Len(e.results) = Cardinality(Classed("matched"))
               /\ e.skipped = Cardinality(Classed("skipped"))
               /\ \A i \in FileIds : (hist.class[i] # "none") <=> (i \in CandidatesOf(folder))
               /\ w.processed = e.total

\* C1 witness: a summary over three candidates, one matched and two not
C1_Witness ==
    /\ FinishedEmitted
    /\ w.total = 3
    /\ Cardinality(Classed("matched")) = 1
    /\ Cardinality(Classed("unmatched")) = 2

\* C2: a corrupt or unreadable candidate is counted in skippedCount of the final
\* summary and is not reported as matched.
C2_UnreadableIsSkipped ==
    \A j \in 1..Len(emitted) :
        emitted[j].sig = "finished" =>
            /\ emitted[j].skipped
                  = Cardinality({i \in CandidatesOf(folder) : Unreadable(i)})
            /\ \A i \in CandidatesOf(folder) :
                  Unreadable(i) => i \notin Range(emitted[j].results)

\* C3: every candidate is submitted as exactly one task and its result is taken by
\* the aggregation loop exactly once, whatever the completion order.
C3_OneTaskOneResult ==
    /\ \A i \in FileIds :
          /\ hist.submits[i] <= 1
          /\ hist.consumed[i] <= 1
          /\ i \notin CandidatesOf(folder) => hist.submits[i] = 0
    /\ w.pc \in {"wait", "record", "count", "returned", "finished"} =>
          \A i \in CandidatesOf(folder) : hist.submits[i] = 1
    /\ FinishedEmitted => \A i \in CandidatesOf(folder) : hist.consumed[i] = 1

\* C3 witness: three tasks whose results were taken out of submission order
C3_Witness ==
    /\ FinishedEmitted
    /\ folder = {2, 3, 6}
    /\ w.results = <<3, 2>>
    /\ \A i \in folder : hist.submits[i] = 1 /\ hist.consumed[i] = 1

\* C4: a stop issued while completedCount < totalCandidates delivers a summary with
\* the matches and counts completed so far, and nothing of that search is delivered
\* to the front end after the stop.
C4_StopDeliversSummary ==
    (hist.stopped /\ hist.stopProcessed < w.total) =>
        /\ hist.summaries = 1
        /\ gui.report.total = w.total
        /\ gui.results_list = w.results
        /\ hist.deliveredAfterStop = 0

\* C5: after the stop no task that had not started begins executing, and no task in
\* flight runs to completion.
C5_StopHaltsTasks ==
    hist.stopped => hist.startedAfterStop = {} /\ hist.completedAfterStop = {}

\* C6 as stated: progress never decreases, and a run that has ended emitted 100%
\* exactly when it was not cancelled.
C6_HundredIffNotCancelled ==
    /\ \A i, j \in 1..Len(ProgressValues) : i < j => ProgressValues[i] <= ProgressValues[j]
    /\ w.pc \in {"returned", "finished", "terminated"} =>
          ((100 \in Range(ProgressValues)) <=> ~hist.stopped)

\* C6 as amended: progress never decreases; 100% is emitted exactly when the last of
\* at least one candidate has been counted, so a run that reaches its summary over a
\* non-empty folder ends its progress with 100% and an empty folder emits no progress.
C6_Progress ==
    /\ \A i, j \in 1..Len(ProgressValues) : i < j => ProgressValues[i] <= ProgressValues[j]
    /\ (100 \in Range(ProgressValues)) <=> (w.total > 0 /\ w.processed = w.total)
    /\ (FinishedEmitted /\ w.total > 0) => ProgressValues[Len(ProgressValues)] = 100
    /\ w.total = 0 => ProgressValues = <<>>
    /\ Len(ProgressValues) <= w.processed

\* C6 witness: a completed run over three candidates
C6_Witness ==
    /\ FinishedEmitted
    /\ ~hist.stopped
    /\ ProgressValues = <<33, 66, 100>>

\* C7: the matchedPaths of the final summary are exactly the candidates with a
\* native-text unit containing the normalized keyword, or, for a PDF without native
\* text layer and with the fallback enabled, a recognized page containing it; with
\* the fallback disabled no PDF without native text layer is matched; skippedCount is
\* 0 when no file is unreadable.
C7_MatchedPaths ==
    \A j \in 1..Len(emitted) :
        emitted[j].sig = "finished" =>
            LET e == emitted[j]
            IN /\ Range(e.results) = {i \in CandidatesOf(folder) : ExpectedMatch(i)}
               /\ Len(e.results) = Cardinality(Range(e.results))
               /\ w.search_only_text =>
                     \A i \in Range(e.results) : HasNativeTextLayer(Catalogue[i].doc)
               /\ (\A i \in CandidatesOf(folder) : ~Unreadable(i)) => e.skipped = 0

\* C7 witness: a.pdf, b.pdf and c.docx with the fallback enabled: b.pdf and c.docx match
C7_Witness ==
    /\ FinishedEmitted
    /\ folder = {1, 2, 3}
    /\ ~w.search_only_text
    /\ TESSERACT_CMD
    /\ Range(w.results) = {2, 3}

\* C8: for every document with a native text layer and every keyword, folder mode and
\* single-file mode both report a match exactly when the normalized native content
\* (pages; paragraphs and table cells) contains the normalized keyword.
C8_NativeTextMatch ==
    (sFolder.done /\ sSingle.done /\ HasNativeTextLayer(sFile.doc))
        => /\ sFolder.found = NativeContentContains(sFile.doc, sKeyword)
           /\ (sSingle.out.results # <<>>) = NativeContentContains(sFile.doc, sKeyword)

\* C9: single-file mode on a PDF returns the zero-based indices of all pages whose
\* normalized text contains the normalized keyword, each once and in ascending order,
\* and shows Locator i as "Strona i + 1".
C9_PdfLocators ==
    (sSingle.done /\ IsPdfFile(sFile))
        => LET r == sSingle.out.results
           IN /\ {r[j] : j \in 1..Len(r)} = MatchingPages(sFile.doc, sKeyword, sSkipOcr)
              /\ \A i, j \in 1..Len(r) : i < j => r[i] < r[j]
              /\ Len(sSingle.out.items) = Len(r)
              /\ \A j \in 1..Len(r) :
                    sSingle.out.items[j] = [label |-> "Strona", number |-> r[j] + 1]

\* C9 witness: a three-page PDF whose first and third page contain the keyword
C9_Witness ==
    /\ sSingle.done
    /\ IsPdfFile(sFile)
    /\ sKeyword = <<"N_acute">>
    /\ Len(sFile.doc.pages) = 3
    /\ sSingle.out.results = <<0, 2>>
    /\ sSingle.out.items = <<[label |-> "Strona", number |-> 1],
                             [label |-> "Strona", number |-> 3]>>

\* C10: normalize_text is idempotent: normalizing a normalized text changes nothing.
C10_Idempotent == nStage = 2 => nTwice = nOnce

\* the request carries no target path, or a keyword with nothing but whitespace
RejectedInput == gui.path = "" \/ ~HasNonSpace(gui.keyword_input)

\* C11: a search request whose keyword is empty after trimming, or whose target path
\* is missing, is rejected before any work starts: no step creates a worker, submits
\* or starts a task, emits a signal or changes the search/stop buttons.
C11_RejectedBeforeWork ==
    [][ RejectedInput =>
          /\ w' = w
          /\ w.pc = "none"
          /\ ~gui.worker
          /\ gui'.worker = gui.worker
          /\ task' = task
          /\ \A i \in FileIds : task[i] = "none" /\ hist.submits[i] = 0
          /\ hist' = hist
          /\ emitted' = emitted
          /\ gui'.search_button = gui.search_button
          /\ gui'.stop_button = gui.stop_button ]_vars

\* C11 witness: a request with a blank keyword was made and answered by the warning;
\* the buttons are as they were and there is no worker
C11_Witness ==
    /\ gui.path = "dir"
    /\ gui.keyword_input = <<"sp">>
    /\ gui.box = "warning"
    /\ gui.search_button
    /\ ~gui.stop_button
    /\ w.pc = "none"

(***************************************************************************)
(* Properties of the per-document search (SpecSearch), continued.          *)
(***************************************************************************)
\* the optical fallback is required for the document (a PDF read to its end without
\* native text layer, fallback permitted) and the recognition engine is missing
OcrRequiredButUnavailable ==
    /\ IsPdfFile(sFile)
    /\ sFile.doc.pages # <<>>
    /\ FullyRead(sFile.doc)
    /\ ~HasNativeTextLayer(sFile.doc)
    /\ ~sSkipOcr
    /\ ~TESSERACT_CMD

\* what the caller of a folder-mode task gets for a document without the keyword
FoundNothing == FALSE

\* what single-file mode shows for a document without the keyword
FoundNothingOut == [results |-> <<>>, items |-> <<>>, no_results_box |-> TRUE]

\* C12: when the optical fallback is required and the recognition engine is not
\* available, the outcome reported to the caller differs from the outcome of a
\* search that found nothing, in folder mode and in single-file mode.
C12_UnavailableIsDistinct ==
    OcrRequiredButUnavailable =>
        /\ sFolder.done => sFolder.found # FoundNothing
        /\ sSingle.done => sSingle.out # FoundNothingOut

\* some page of the document yields non-whitespace native text
SomePageHasNativeText(doc) ==
    \E k \in 1..Len(doc.pages) : ~doc.pages[k].raises /\ HasNonSpace(doc.pages[k].text)

\* the conditions under which the optical fallback may run for the document
OcrMayRun ==
    /\ IsPdfFile(sFile)
    /\ sFile.doc.fmt # "docx"
    /\ ~SomePageHasNativeText(sFile.doc)
    /\ ~NativeContentContains(sFile.doc, sKeyword)
    /\ ~sSkipOcr

\* C14: the optical fallback runs for a PDF only when the native pass found no page
\* with non-whitespace text and the request did not ask for native-text-only search;
\* never for a DOCX, never when a page has native text, never after a native match.
\* No page image is recognized unless the fallback was entered.
C14_OcrOnlyWhenDue ==
    /\ sFolder.done =>
          /\ sFolder.effects.ocr_entered => OcrMayRun
          /\ sFolder.effects.recognized # <<>> => sFolder.effects.ocr_entered
    /\ sSingle.done =>
          /\ sSingle.effects.ocr_entered => OcrMayRun
          /\ sSingle.effects.recognized # <<>> => sSingle.effects.ocr_entered

\* C14 witness: a scanned two-page PDF searched with the fallback permitted; both
\* modes recognized its pages
C14_Witness ==
    /\ sFolder.done
    /\ sSingle.done
    /\ Len(sFile.doc.pages) = 2
    /\ ~sSkipOcr
    /\ sFolder.effects.ocr_entered
    /\ sFolder.effects.recognized = <<1, 2>>
    /\ sSingle.effects.ocr_entered
    /\ sSingle.effects.recognized = <<1, 2>>

\* the search left a document handle open: it opened one and never closed it
HandleLeftOpen(effects) == effects.opened /\ ~effects.closed

\* C15: on every exit path of the per-document search (match, no match, fallback to
\* OCR, an exception while opening or reading a page) the document handle the search
\* opened is closed before it returns.
C15_HandleClosed ==
    /\ sFolder.done => ~HandleLeftOpen(sFolder.effects)
    /\ sSingle.done => ~HandleLeftOpen(sSingle.effects)

\* C18: folder mode and single-file mode use the same extraction units and differ
\* only in the stop condition: for every document (PDF or DOCX, with paragraphs and
\* table cells) and every keyword, folder mode reports the document as matched if and
\* only if single-file mode returns a non-empty Locator list for it.
C18_ModesAgree ==
    (sFolder.done /\ sSingle.done) => (sFolder.found <=> (sSingle.out.results # <<>>))

\* the optical fallback ran on the document: a PDF read to its end without native
\* text, fallback permitted, engine present, page images produced
OcrRan ==
    /\ IsPdfFile(sFile)
    /\ FullyRead(sFile.doc)
    /\ ~HasNativeTextLayer(sFile.doc)
    /\ ~sSkipOcr
    /\ TESSERACT_CMD
    /\ sFile.doc.raster

\* the pages whose recognition fails
FailingPages == {k \in 1..Len(sFile.doc.pages) : sFile.doc.pages[k].ocrRaises}

\* the pages recognized with a text that contains the normalized keyword
RecognizedHits ==
    {k \in 1..Len(sFile.doc.pages) :
        ~sFile.doc.pages[k].ocrRaises /\ Matches(sFile.doc.pages[k].ocr, sKeyword)}

\* C20: during the optical fallback a recognition failure on a page costs that page
\* only: the pages after it are still recognized and tested, the image of every page
\* the loop reached (the failed one too) is released, the failed page is no match, and
\* a page containing the keyword still yields a match (folder mode) or its Locator
\* (single-file mode).
C20_OcrFailureIsolated ==
    (OcrRan /\ FailingPages # {}) =>
        /\ sFolder.done =>
              /\ sFolder.found <=> RecognizedHits # {}
              /\ \A k \in 1..Len(sFile.doc.pages) :
                    (\A j \in 1..(k - 1) : j \notin RecognizedHits)
                        => k \in Range(sFolder.effects.recognized)
              /\ Range(sFolder.effects.released) = Range(sFolder.effects.recognized)
        /\ sSingle.done =>
              /\ Range(sSingle.out.results) = {k - 1 : k \in RecognizedHits}
              /\ Range(sSingle.effects.recognized) = 1..Len(sFile.doc.pages)
              /\ Range(sSingle.effects.released) = 1..Len(sFile.doc.pages)

\* C20 witness: a scanned PDF whose first page fails recognition and whose second
\* page is read as "N ": keyword "N-acute" is found on the second page in both modes,
\* and both page images were released
C20_Witness ==
    /\ OcrRan
    /\ sKeyword = <<"N_acute">>
    /\ Len(sFile.doc.pages) = 2
    /\ FailingPages = {1}
    /\ sFolder.done
    /\ sFolder.found
    /\ sFolder.effects.released = <<1, 2>>
    /\ sSingle.done
    /\ sSingle.out.results = <<1>>
    /\ sSingle.effects.released = <<1, 2>>

\* search accepts the keyword: it is what strip() leaves and it is not empty
AcceptedKeyword(keyword) == Strip(keyword) = keyword /\ keyword # <<>>

\* C22: for every request accepted by search (keyword non-empty after trimming) the
\* normalized keyword used for matching is non-empty, so no document is reported as
\* a match merely because the empty string is contained in every text.
C22_NormalizedKeywordNotEmpty ==
    AcceptedKeyword(sKeyword) =>
        /\ (sFolder.done \/ sSingle.done) => normalize_text(sKeyword) # <<>>
        /\ (sFolder.done /\ sFolder.found) => normalize_text(sKeyword) # <<>>
        /\ (sSingle.done /\ sSingle.out.results # <<>>) => normalize_text(sKeyword) # <<>>

(***************************************************************************)
(* Properties of the folder search (Spec), continued.                      *)
(***************************************************************************)
\* the finished signals emitted so far
FinishedCount ==
    LET IsFinished(e) == e.sig = "finished"
    IN Len(SelectSeq(emitted, IsFinished))

\* the started request has come to its end: run() returned, or its thread was
\* terminated by the stop
RequestEnded == w.pc \in {"returned", "finished", "terminated"}

\* C13: every started folder search request (completed, without candidates, or
\* cancelled) is finalized exactly once: finished is emitted exactly one time, and no
\* progress or match event of the request is emitted after it.
C13_FinalizedExactlyOnce ==
    /\ FinishedCount <= 1
    /\ \A j \in 1..Len(emitted) : emitted[j].sig = "finished" => j = Len(emitted)
    /\ RequestEnded => FinishedCount = 1

\* the candidates whose result the aggregation loop has taken and counted
Counted == {i \in FileIds : hist.class[i] # "none"}

MatchFoundPaths ==
    LET IsMatchFound(e) == e.sig = "file_processed"
        ms == SelectSeq(emitted, IsMatchFound)
    IN [j \in 1..Len(ms) |-> ms[j].path]

\* C17: a matchFound notification is emitted the moment a match is recorded, before
\* the progress event of that task and before the final summary; the matchedPaths of
\* the summary have no duplicates and are exactly the notified paths in emission order.
C17_MatchFoundOrder ==
    /\ w.results = MatchFoundPaths
    /\ \A j \in 1..Len(emitted) :
          emitted[j].sig = "file_processed" =>
             /\ j < Len(emitted) => emitted[j + 1].sig = "progress"
             /\ \A k \in 1..j : emitted[k].sig # "finished"
    /\ \A j \in 1..Len(emitted) :
          emitted[j].sig = "finished" =>
             /\ emitted[j].results = MatchFoundPaths
             /\ \A a, b \in 1..Len(emitted[j].results) :
                   a # b => emitted[j].results[a] # emitted[j].results[b]

\* C17 witness: a.pdf, b.pdf and c.docx; c.docx was matched first, then b.pdf, each
\* notified before its progress event, and the summary lists them in that order
C17_Witness ==
    /\ folder = {1, 2, 3}
    /\ Len(emitted) = 6
    /\ emitted[1] = FileProcessedSignal(3)
    /\ emitted[2].sig = "progress"
    /\ emitted[3] = FileProcessedSignal(2)
    /\ emitted[4].sig = "progress"
    /\ emitted[5].sig = "progress"
    /\ emitted[6] = FinishedSignal(<<3, 2>>, 3, 0)

\* the concurrency level of the request: MAX_WORKERS, doubled in high-performance mode
Concurrency == IF gui.high_performance THEN 2 * MAX_WORKERS ELSE MAX_WORKERS

Pending == {i \in FileIds : task[i] = "pending"}

\* C19: at every moment of a folder search the number of tasks executing concurrently
\* is at most the concurrency level of the request, even though all tasks are
\* submitted to the pool up front.
C19_BoundedConcurrency ==
    /\ gui.worker => w.max_workers = Concurrency
    /\ Cardinality(Running) <= Concurrency
    /\ ~gui.worker => Running = {}

\* C19 witness: high-performance mode, three tasks submitted up front; two execute,
\* which is the concurrency level, and the third waits in the queue
C19_Witness ==
    /\ gui.high_performance
    /\ w.pc = "wait"
    /\ w.total = 3
    /\ Cardinality(Running) = Concurrency
    /\ Cardinality(Pending) = 1

\* C21: in every reachable state of the front end (search, search_single_file,
\* stop_search, display_summary, a rejected request) exactly one of the search button
\* and the stop button is enabled, and the search button is disabled for as long as
\* the folder worker is running, so that no second worker can be started meanwhile.
C21_ButtonsAndOneWorker ==
    /\ gui.search_button # gui.stop_button
    /\ (gui.worker /\ isRunning) => ~gui.search_button

====
